---- MODULE Spec2Model ----
(***************************************************************************)
(* Model of tower's ServiceBuilder (tower/src/builder/mod.rs): the ordered *)
(* accumulation of layers, the Identity base case, and the two terminal    *)
(* operations build_svc and build_maker, driven by a client that builds a  *)
(* stack and then uses the services it obtained.                           *)
(***************************************************************************)
EXTENDS Naturals, Sequences, FiniteSets

VARIABLES
    builder,      \* the ServiceBuilder value the caller holds (or Moved)
    failing,      \* the layers whose Layer::layer returns Err (configuration)
    chained,      \* history: the layers passed to chain, in call order
    built,        \* what build_svc returned, with the client's use of it
    maker,        \* the ServiceBuilderMaker returned by build_maker
    futures       \* the MakerFutures returned by the maker's call, in order

vars == <<builder, failing, chained, built, maker, futures>>

\* ---------------------------------------------------------------- bounds

MaxChain == 2
MaxProductions == 2

\* ------------------------------------------------------------ the universe

Layers == {"A", "B"}
Targets == {"T1", "T2"}

\* A terminal service (MockSvc-like): what poll_ready answers and what the
\* future returned by call resolves to.
Profiles ==
    { [ready |-> "Ready", call |-> "Ok"],
      [ready |-> "Ready", call |-> "Err"],
      [ready |-> "NotReady", call |-> "Ok"],
      [ready |-> "Err", call |-> "Err"] }

Handler(id, p) == [id |-> id, ready |-> p.ready, call |-> p.call]

None == [tag |-> "None"]
Moved == [tag |-> "Moved"]

Ok(v) == [ok |-> TRUE, val |-> v]
Err(e) == [ok |-> FALSE, err |-> e]

LayerError(d) == [kind |-> "LayerError", of |-> d]
MakeError(t) == [kind |-> "MakeError", of |-> t]

\* ------------------------------------------------------------- services

Base(h) == [tag |-> "Base", h |-> h]
Wrap(d, inner) == [tag |-> "Wrap", by |-> d, inner |-> inner]

\* One entry of a request's path: the wrapper of layer d, or the terminal
\* service id.
AtWrapper(d) == [wrapper |-> d]
AtHandler(id) == [handler |-> id]

RECURSIVE Service_poll_ready(_)
Service_poll_ready(svc) ==
    IF svc.tag = "Base"
    THEN [res |-> svc.h.ready, visits |-> <<AtHandler(svc.h.id)>>]
    ELSE LET r == Service_poll_ready(svc.inner)
         IN  [res |-> r.res, visits |-> <<AtWrapper(svc.by)>> \o r.visits]

RECURSIVE Service_call(_)
Service_call(svc) ==
    IF svc.tag = "Base"
    THEN [res |-> svc.h.call, visits |-> <<AtHandler(svc.h.id)>>]
    ELSE LET r == Service_call(svc.inner)
         IN  [res |-> r.res, visits |-> <<AtWrapper(svc.by)>> \o r.visits]

\* --------------------------------------------------------------- layers

Identity_new == [tag |-> "Identity"]

\* Mutants of Identity::layer: one hands back a default service instead of
\* its argument, one reports a layer error.
Identity_layer_default(inner) ==
    Ok(Base(Handler(0, [ready |-> "Ready", call |-> "Ok"])))

Identity_layer_err(inner) == Err(LayerError("Identity"))

Identity_layer(inner) == Ok(inner)

Leaf(d) == [tag |-> "Leaf", name |-> d]

Leaf_layer(d, inner) ==
    [res |-> IF d \in failing THEN Err(LayerError(d)) ELSE Ok(Wrap(d, inner)),
     log |-> <<[by |-> d, on |-> inner]>>]

Chain_new(inner, outer) == [tag |-> "Chain", inner |-> inner, outer |-> outer]

RECURSIVE layer(_, _)
Chain_layer(l, service) ==
    LET i == layer(l.inner, service)
    IN  IF ~i.res.ok
        THEN i
        ELSE LET o == layer(l.outer, i.res.val)
             IN  [res |-> o.res, log |-> i.log \o o.log]

layer(l, service) ==
    CASE l.tag = "Identity" -> [res |-> Identity_layer(service), log |-> <<>>]
      [] l.tag = "Leaf" -> Leaf_layer(l.name, service)
      [] l.tag = "Chain" -> Chain_layer(l, service)

LayerExt_chain(self, middleware) == Chain_new(self, middleware)

\* ------------------------------------------------------- ServiceBuilder

new == [layer |-> Identity_new]

\* Mutants of chain: one pairs the two layers the other way round, one
\* starts again from Identity instead of the layers accumulated so far.
chain_swapped(self, l) == [layer |-> LayerExt_chain(l, self.layer)]

chain_replace(self, l) == [layer |-> LayerExt_chain(Identity_new, l)]

chain(self, l) == [layer |-> LayerExt_chain(self.layer, l)]

build_svc(self, service) == layer(self.layer, service)

ServiceBuilderMaker_new(m, l) == [maker |-> m, layer |-> l]

\* Mutants of build_maker: one hands the maker no layers at all, one only
\* the layer chained last.
build_maker_noLayers(self, m) == ServiceBuilderMaker_new(m, Identity_new)

build_maker_lastOnly(self, m) ==
    ServiceBuilderMaker_new(
        m, IF self.layer.tag = "Chain" THEN self.layer.outer ELSE self.layer)

build_maker(self, m) == ServiceBuilderMaker_new(m, self.layer)

\* ---------------------------------------------------------------- state

NoUse == [ready |-> "None", call |-> "None", visits |-> <<>>]

Init ==
    /\ builder = new
    /\ failing \in SUBSET Layers
    /\ chained = <<>>
    /\ built = None
    /\ maker = None
    /\ futures = <<>>

CallChain(d) ==
    /\ builder # Moved
    /\ Len(chained) < MaxChain
    /\ builder' = chain(builder, Leaf(d))
    /\ chained' = Append(chained, d)
    /\ UNCHANGED <<failing, built, maker, futures>>

CallBuildSvc(p) ==
    /\ builder # Moved
    /\ LET h == Handler(0, p)
           r == build_svc(builder, Base(h))
       IN  built' = [tag |-> "Built", h |-> h, res |-> r.res, log |-> r.log,
                     use |-> NoUse]
    /\ builder' = Moved
    /\ UNCHANGED <<failing, chained, maker, futures>>

MockMaker == [tag |-> "MockMaker"]

CallBuildMaker ==
    /\ builder # Moved
    /\ maker' = build_maker(builder, MockMaker)
    /\ builder' = Moved
    /\ UNCHANGED <<failing, chained, built, futures>>

\* ------------------------------------ ServiceBuilderMaker and MakerFuture

NotReady == [tag |-> "NotReady"]

\* What polling the inner factory's future can return for target t, the
\* handler it resolves to being the id-th one the factory produces.
InnerPolls(t, id) ==
    {NotReady} \cup {Err(MakeError(t))} \cup {Ok(Base(Handler(id, p))) : p \in Profiles}

ServiceBuilderMaker_call(self, target) ==
    [target |-> target, layer |-> self.layer, state |-> "created",
     made |-> None, res |-> None, log |-> <<>>, use |-> NoUse]

\* Mutant of MakerFuture::poll: decoration is attempted before the inner
\* result is looked at.
MakerFuture_poll_eager(f, inner) ==
    IF inner = NotReady
    THEN [f EXCEPT !.state = "pending"]
    ELSE LET r == layer(f.layer, IF inner.ok THEN inner.val ELSE Base(Handler(0, [ready |-> "Ready", call |-> "Ok"])))
         IN  [f EXCEPT !.state = "done", !.made = inner, !.log = r.log,
                       !.res = IF inner.ok THEN r.res ELSE Err(inner.err)]

MakerFuture_poll(f, inner) ==
    IF inner = NotReady
    THEN [f EXCEPT !.state = "pending"]
    ELSE IF ~inner.ok
    THEN [f EXCEPT !.state = "done", !.made = inner, !.res = Err(inner.err)]
    ELSE LET r == layer(f.layer, inner.val)
         IN  [f EXCEPT !.state = "done", !.made = inner, !.res = r.res, !.log = r.log]

InFlight(f) == f.state \in {"created", "pending"}

MakerCall(t) ==
    /\ maker # None
    /\ Len(futures) < MaxProductions
    /\ futures' = Append(futures, ServiceBuilderMaker_call(maker, t))
    /\ UNCHANGED <<builder, failing, chained, built, maker>>

FuturePoll(i) ==
    /\ InFlight(futures[i])
    /\ \E inner \in InnerPolls(futures[i].target, i) :
         futures' = [futures EXCEPT ![i] = MakerFuture_poll(futures[i], inner)]
    /\ UNCHANGED <<builder, failing, chained, built, maker>>

FutureDrop(i) ==
    /\ InFlight(futures[i])
    /\ futures' = [futures EXCEPT ![i].state = "dropped"]
    /\ UNCHANGED <<builder, failing, chained, built, maker>>

\* ------------------------------------------------- the client's services

\* Slot 0 is the service build_svc returned, slot i the one production i
\* resolved to.
Slots == 0 .. Len(futures)

Holder(k) == IF k = 0 THEN built ELSE futures[k]

HasService(k) ==
    /\ k \in Slots
    /\ IF k = 0 THEN built # None ELSE futures[k].state = "done"
    /\ Holder(k).res.ok

PollReadyUse(u, svc) == [u EXCEPT !.ready = Service_poll_ready(svc).res]

CallUse(u, svc) ==
    LET r == Service_call(svc)
    IN  [u EXCEPT !.call = r.res, !.visits = r.visits]

SetUse(k, u) ==
    /\ built' = IF k = 0 THEN [built EXCEPT !.use = u] ELSE built
    /\ futures' = IF k = 0 THEN futures ELSE [futures EXCEPT ![k].use = u]

SvcPollReady(k) ==
    /\ HasService(k)
    /\ Holder(k).use.ready \in {"None", "NotReady"}
    /\ SetUse(k, PollReadyUse(Holder(k).use, Holder(k).res.val))
    /\ UNCHANGED <<builder, failing, chained, maker>>

SvcCall(k) ==
    /\ HasService(k)
    /\ Holder(k).use.ready = "Ready"
    /\ Holder(k).use.call = "None"
    /\ SetUse(k, CallUse(Holder(k).use, Holder(k).res.val))
    /\ UNCHANGED <<builder, failing, chained, maker>>

Next ==
    \/ \E d \in Layers : CallChain(d)
    \/ \E p \in Profiles : CallBuildSvc(p)
    \/ CallBuildMaker
    \/ \E t \in Targets : MakerCall(t)
    \/ \E i \in 1 .. Len(futures) : FuturePoll(i)
    \/ \E i \in 1 .. Len(futures) : FutureDrop(i)
    \/ \E k \in Slots : SvcPollReady(k)
    \/ \E k \in Slots : SvcCall(k)

Spec == Init /\ [][Next]_vars

\* The client's task is run to completion: it keeps being polled while it
\* has a readiness query or a call to make.
ClientStep == \E k \in Slots : SvcPollReady(k) \/ SvcCall(k)

ClientFair == WF_vars(ClientStep)

FairSpec == Spec /\ ClientFair

\* ============================================================ properties

\* The expected values below are written out from the chained history; they
\* use neither chain nor layer.

Front(seq) == SubSeq(seq, 1, Len(seq) - 1)
Last(seq) == seq[Len(seq)]

RECURSIVE Reverse(_)
Reverse(seq) == IF seq = <<>> THEN <<>> ELSE <<Last(seq)>> \o Reverse(Front(seq))

\* The service with layer ds[1] innermost and ds[Len(ds)] outermost.
RECURSIVE Stack(_, _)
Stack(ds, base) ==
    IF ds = <<>> THEN base ELSE [tag |-> "Wrap", by |-> Last(ds), inner |-> Stack(Front(ds), base)]

\* The accumulator after chaining ds in order.
RECURSIVE AccOf(_)
AccOf(ds) ==
    IF ds = <<>>
    THEN [tag |-> "Identity"]
    ELSE [tag |-> "Chain", inner |-> AccOf(Front(ds)),
          outer |-> [tag |-> "Leaf", name |-> Last(ds)]]

WrapperPath(ds) == [j \in 1 .. Len(ds) |-> [wrapper |-> ds[j]]]

Fails(ds) == \E j \in 1 .. Len(ds) : ds[j] \in failing

\* The first layer of ds, in chain order, whose construction fails.
FirstFailing(ds) ==
    ds[CHOOSE j \in 1 .. Len(ds) :
         /\ ds[j] \in failing
         /\ \A m \in 1 .. j - 1 : ds[m] \notin failing]

Called(u) == u.call # "None"

\* C1: a request to the service build_svc returned visits the wrappers of
\* the chained layers last-chained first, each once, and then the service
\* that was passed to build_svc.
C1_OrderLaw ==
    (built # None /\ built.res.ok /\ Called(built.use)) =>
        built.use.visits = WrapperPath(Reverse(chained)) \o <<[handler |-> built.h.id]>>

C1_Witness ==
    /\ built # None
    /\ chained = <<"A", "B">>
    /\ Called(built.use)
    /\ built.use.visits = <<[wrapper |-> "B"], [wrapper |-> "A"], [handler |-> 0]>>

\* C2: with nothing chained, build_svc succeeds and returns the service it
\* was given; readiness and call results are that service's own.
C2_IdentityLaw ==
    (built # None /\ chained = <<>>) =>
        /\ built.res = [ok |-> TRUE, val |-> [tag |-> "Base", h |-> built.h]]
        /\ built.use.ready \in {"None", built.h.ready}
        /\ built.use.call \in {"None", built.h.call}
        /\ Called(built.use) => built.use.visits = <<[handler |-> built.h.id]>>

C2_Witness ==
    /\ built # None
    /\ chained = <<>>
    /\ built.h.call = "Err"
    /\ built.use.call = "Err"

\* C3: when build_svc fails, it returns exactly the error of the first layer
\* that failed during the nested application, every layer applied before it
\* having succeeded; no service is returned, so no wrapper is ever invoked.
C3_FailureShortCircuit ==
    (built # None /\ ~built.res.ok) =>
        /\ Fails(chained)
        /\ built.res = [ok |-> FALSE,
                        err |-> [kind |-> "LayerError", of |-> FirstFailing(chained)]]
        /\ Len(built.log) >= 1
        /\ built.log[Len(built.log)].by = FirstFailing(chained)
        /\ \A j \in 1 .. Len(built.log) - 1 : built.log[j].by \notin failing
        /\ built.use = NoUse

C3_Witness ==
    /\ built # None
    /\ chained = <<"A", "B">>
    /\ failing = {"B"}
    /\ built.res = [ok |-> FALSE, err |-> [kind |-> "LayerError", of |-> "B"]]
    /\ built.use = NoUse

\* C8 as stated: the layer chained last is constructed first, on the service
\* passed in, and the layers accumulated before it are constructed after it.
C8_NewestConstructedFirst ==
    (built # None /\ Len(chained) >= 2) =>
        \A j \in 1 .. Len(built.log) :
            built.log[j].by = chained[Len(chained) - j + 1]

\* C8 amended: the layers are constructed in the order they were chained:
\* the accumulated layers first, on the service passed in, and the newly
\* chained layer after them, on their result.
C8_ConstructionOrder ==
    built # None =>
        /\ Len(built.log) <= Len(chained)
        /\ \A j \in 1 .. Len(built.log) :
              /\ built.log[j].by = chained[j]
              /\ built.log[j].on =
                    Stack(SubSeq(chained, 1, j - 1), [tag |-> "Base", h |-> built.h])

C8_Witness ==
    /\ built # None
    /\ chained = <<"A", "B">>
    /\ Len(built.log) = 2
    /\ built.log[1] = [by |-> "A", on |-> [tag |-> "Base", h |-> built.h]]
    /\ built.log[2] = [by |-> "B",
                       on |-> [tag |-> "Wrap", by |-> "A",
                               inner |-> [tag |-> "Base", h |-> built.h]]]

Done(i) == futures[i].state = "done"

\* The factory resolved production i to a service.
Made(i) == Done(i) /\ futures[i].made.ok

Productions == 1 .. Len(futures)

\* C4: a production whose factory fails for target T completes with the
\* factory's error for T, and no layer was constructed during it.
C4_FactoryFailure ==
    \A i \in Productions :
        (Done(i) /\ ~futures[i].made.ok) =>
            /\ futures[i].res =
                  [ok |-> FALSE,
                   err |-> [kind |-> "MakeError", of |-> futures[i].target]]
            /\ futures[i].log = <<>>
            /\ futures[i].use = NoUse

C4_Witness ==
    \E i \in Productions :
        /\ Len(chained) >= 1
        /\ futures[i].target = "T2"
        /\ Done(i)
        /\ futures[i].res = [ok |-> FALSE, err |-> [kind |-> "MakeError", of |-> "T2"]]

\* C5: a production returns a service only with every chained layer applied
\* to it; when the factory succeeds and a chained layer fails construction,
\* the production fails with that layer's error and returns no service.
C5_NoPartialDecoration ==
    \A i \in Productions :
        Made(i) =>
            IF Fails(chained)
            THEN /\ ~futures[i].res.ok
                 /\ futures[i].res.err.kind = "LayerError"
                 /\ futures[i].res.err.of \in failing
                 /\ futures[i].use = NoUse
            ELSE futures[i].res =
                    [ok |-> TRUE, val |-> Stack(chained, futures[i].made.val)]

C5_Witness ==
    \E i \in Productions :
        /\ Made(i)
        /\ chained = <<"A", "B">>
        /\ failing = {"B"}
        /\ ~futures[i].res.ok

\* The builder that chaining ds in order onto new() gives.
RECURSIVE BuilderOf(_)
BuilderOf(ds) ==
    IF ds = <<>> THEN new ELSE chain(BuilderOf(Front(ds)), Leaf(Last(ds)))

\* C6: what production i returns for the service the factory made is what
\* build_svc with the same chain returns for that service, and the client
\* sees the same readiness and call results on both.
C6_FactoryFidelity ==
    \A i \in Productions :
        Made(i) =>
            LET direct == build_svc(BuilderOf(chained), futures[i].made.val).res
            IN  /\ futures[i].res = direct
                /\ direct.ok =>
                      /\ futures[i].use.ready \in
                            {"None", Service_poll_ready(direct.val).res}
                      /\ Called(futures[i].use) =>
                            /\ futures[i].use.call = Service_call(direct.val).res
                            /\ futures[i].use.visits = Service_call(direct.val).visits

C6_Witness ==
    /\ Len(futures) = 2
    /\ Len(chained) = 2
    /\ \A i \in Productions : Made(i) /\ Called(futures[i].use)

\* C9 as stated: each chained layer has been constructed exactly once for
\* every service the factory produced.
C9_OncePerProduced ==
    \A i \in Productions :
        Made(i) =>
            \A j \in 1 .. Len(chained) :
                Cardinality({m \in 1 .. Len(futures[i].log) :
                    futures[i].log[m].by = chained[j]})
                = Cardinality({m \in 1 .. Len(chained) : chained[m] = chained[j]})

\* C9 amended: build_maker constructs nothing; a production constructs
\* layers only once the factory has produced its service, in chain order on
\* that service, each at most once and stopping at the first layer that
\* fails, and every layer exactly once when the production succeeds;
\* distinct productions decorate distinct services.
C9_DeferredPerProduction ==
    /\ \A i \in Productions :
          /\ ~Made(i) => futures[i].log = <<>>
          /\ Made(i) =>
                /\ Len(futures[i].log) <= Len(chained)
                /\ \A j \in 1 .. Len(futures[i].log) :
                      /\ futures[i].log[j].by = chained[j]
                      /\ futures[i].log[j].on =
                            Stack(SubSeq(chained, 1, j - 1), futures[i].made.val)
                      /\ j < Len(futures[i].log) => chained[j] \notin failing
                /\ Len(futures[i].log) < Len(chained) =>
                      /\ Len(futures[i].log) >= 1
                      /\ chained[Len(futures[i].log)] \in failing
                /\ futures[i].res.ok => Len(futures[i].log) = Len(chained)
    /\ \A i, k \in Productions :
          (i # k /\ Made(i) /\ Made(k)) => futures[i].made.val # futures[k].made.val

C9_Witness ==
    /\ Len(futures) = 2
    /\ chained = <<"A", "B">>
    /\ \A i \in Productions :
          /\ Made(i)
          /\ futures[i].res.ok
          /\ Len(futures[i].log) = 2

\* C10: the maker's layers are the chain it was built with, whatever
\* productions have completed, failed or been dropped, and every production
\* that returns a service has decorated it with that whole chain in order.
C10_AccumulatorUnchanged ==
    maker # None =>
        /\ maker.layer = AccOf(chained)
        /\ \A i \in Productions :
              /\ futures[i].layer = AccOf(chained)
              /\ (Done(i) /\ futures[i].res.ok) =>
                    futures[i].res.val = Stack(chained, futures[i].made.val)

C10_Witness ==
    /\ Len(futures) = 2
    /\ chained = <<"A", "B">>
    /\ failing = {}
    /\ futures[1].state = "dropped"
    /\ Made(2)
    /\ futures[2].res.ok

AllGood(k) ==
    /\ ~Fails(chained)
    /\ IF k = 0
       THEN built # None /\ built.h.ready = "Ready" /\ built.h.call = "Ok"
       ELSE /\ k <= Len(futures)
            /\ Made(k)
            /\ futures[k].made.val.h.ready = "Ready"
            /\ futures[k].made.val.h.call = "Ok"

Served(k) == Holder(k).use.call = "Ok"

====
